---- MODULE Spec2Model ----
(***************************************************************************)
(* Model of mlcube's Shell.generate_mounts_and_args and                    *)
(* Shell.sync_workspace (mlcube/mlcube/shell.py).                          *)
(*                                                                         *)
(* Strings are sequences of tokens: the token "/" is the path separator,   *)
(* " " is white space, "storage:" the storage scheme marker, every other   *)
(* token is a piece of text without a separator.  A file system is a       *)
(* function from nodes (sequences of file names from the root) to entries. *)
(***************************************************************************)
EXTENDS Naturals, Sequences, FiniteSets, TLC

VARIABLES cube, task, fs, pre, ret, prev, calls, pc, idx, copied

vars == <<cube, task, fs, pre, ret, prev, calls, pc, idx, copied>>

\* ------------------------------------------------------------------ bounds
MaxInputs == 2
MaxOutputs == 1
MaxCalls == 2

\* --------------------------------------------------------------- constants
Sep == "/"
Dot == <<".">>
DotDot == <<"..">>
Space == " "
StorageScheme == "storage:"

UNKNOWN == "unknown"
FILE == "file"
DIRECTORY == "directory"
INPUT == "input"
OUTPUT == "output"

\* ParameterType.is_valid / IOType.is_valid (mlcube.config)
ParameterTypeIsValid(type) == type \in {UNKNOWN, FILE, DIRECTORY}
IOTypeIsValid(io) == io \in {INPUT, OUTPUT}

\* str(int) for the numbers that occur
NumStr(n) == <<"0", "1", "2", "3", "4", "5", "6", "7", "8", "9">>[n + 1]

\* ----------------------------------------------------------------- strings
StartsWith(s, tok) == Len(s) > 0 /\ s[1] = tok
EndsWith(s, tok) == Len(s) > 0 /\ s[Len(s)] = tok

\* os.path.join(a, b)
Join(a, b) ==
    IF StartsWith(b, Sep) THEN b
    ELSE IF a = <<>> \/ EndsWith(a, Sep) THEN a \o b
    ELSE a \o <<Sep>> \o b

\* s.split('/'): the components of s, each a string
RECURSIVE SplitSep(_)
SplitSep(s) ==
    IF s = <<>> THEN << <<>> >>
    ELSE LET rest == SplitSep(Tail(s))
         IN IF Head(s) = Sep THEN << <<>> >> \o rest
            ELSE << <<Head(s)>> \o Head(rest) >> \o Tail(rest)

\* s.rfind('/') + 1
LastSep(s) ==
    LET at == {i \in 1..Len(s) : s[i] = Sep}
    IN IF at = {} THEN 0 ELSE CHOOSE i \in at : \A j \in at : j <= i

\* s.rstrip('/')
RECURSIVE RStripSep(_)
RStripSep(s) ==
    IF EndsWith(s, Sep) THEN RStripSep(SubSeq(s, 1, Len(s) - 1)) ELSE s

\* s.strip()
RECURSIVE LStripSpace(_)
LStripSpace(s) == IF StartsWith(s, Space) THEN LStripSpace(Tail(s)) ELSE s
RECURSIVE RStripSpace(_)
RStripSpace(s) ==
    IF EndsWith(s, Space) THEN RStripSpace(SubSeq(s, 1, Len(s) - 1)) ELSE s
Strip(s) == RStripSpace(LStripSpace(s))

\* os.path.split(p): <<head, tail>>
PathSplit(p) ==
    LET i == LastSep(p)
        head == SubSeq(p, 1, i)
        tail == SubSeq(p, i + 1, Len(p))
        allSep == \A k \in 1..Len(head) : head[k] = Sep
    IN << IF head # <<>> /\ ~allSep THEN RStripSep(head) ELSE head, tail >>

\* os.path.basename(p), os.path.dirname(p)
Basename(p) == SubSeq(p, LastSep(p) + 1, Len(p))
Dirname(p) == PathSplit(p)[1]

\* the components os.path.commonpath keeps of one path
SelectComps(cs) == SelectSeq(cs, LAMBDA c : c # <<>> /\ c # Dot)

IsPrefix(a, b) == Len(a) <= Len(b) /\ SubSeq(b, 1, Len(a)) = a

\* longest common prefix of two component lists
RECURSIVE CommonPrefix(_, _)
CommonPrefix(a, b) ==
    IF a = <<>> \/ b = <<>> \/ Head(a) # Head(b) THEN <<>>
    ELSE <<Head(a)>> \o CommonPrefix(Tail(a), Tail(b))

\* os.path.commonpath([a, b]) of absolute paths, as its list of components
CommonPath(a, b) == CommonPrefix(SelectComps(SplitSep(a)), SelectComps(SplitSep(b)))

\* os.path.normpath of an absolute path, as a list of components
RECURSIVE NormComps(_, _)
NormComps(cs, acc) ==
    IF cs = <<>> THEN acc
    ELSE LET c == Head(cs)
         IN IF c = <<>> \/ c = Dot THEN NormComps(Tail(cs), acc)
            ELSE IF c = DotDot
                 THEN NormComps(Tail(cs),
                                IF acc = <<>> THEN acc ELSE SubSeq(acc, 1, Len(acc) - 1))
            ELSE NormComps(Tail(cs), Append(acc, c))

\* the string of a list of components of an absolute path
RECURSIVE CompsStr(_)
CompsStr(cs) ==
    IF cs = <<>> THEN <<>> ELSE <<Sep>> \o Head(cs) \o CompsStr(Tail(cs))

\* os.path.abspath(p) of an absolute path p
Abspath(p) ==
    LET cs == NormComps(SplitSep(p), <<>>)
    IN IF cs = <<>> THEN <<Sep>> ELSE CompsStr(cs)

\* ------------------------------------------------------------- file system
NoNode == << <<"?">> >>
DirEntry == [kind |-> "dir", data |-> "-"]
FileEntry(d) == [kind |-> "file", data |-> d]

Kind(f, node) ==
    IF node = <<>> THEN "dir"
    ELSE IF node \in DOMAIN f THEN f[node].kind
    ELSE "absent"

Parent(node) == IF node = <<>> THEN node ELSE SubSeq(node, 1, Len(node) - 1)

\* the kernel's walk along the components of an absolute path
RECURSIVE Walk(_, _, _)
Walk(f, cs, cur) ==
    IF cs = <<>> THEN cur
    ELSE LET c == Head(cs)
         IN IF c = <<>> THEN Walk(f, Tail(cs), cur)
            ELSE IF Kind(f, cur) # "dir" THEN NoNode
            ELSE IF c = Dot THEN Walk(f, Tail(cs), cur)
            ELSE IF c = DotDot THEN Walk(f, Tail(cs), Parent(cur))
            ELSE Walk(f, Tail(cs), Append(cur, c))

\* the node an absolute path names (a trailing separator asks for a directory)
Resolve(f, p) ==
    LET cs == SplitSep(p)
    IN Walk(f, IF EndsWith(p, Sep) THEN Append(cs, Dot) ELSE cs, <<>>)

\* os.path.exists, os.path.isdir, os.path.isfile
Exists(f, p) == Kind(f, Resolve(f, p)) # "absent"
Isdir(f, p) == Kind(f, Resolve(f, p)) = "dir"
Isfile(f, p) == Kind(f, Resolve(f, p)) = "file"

\* os.path.samefile(a, b), both existing
Samefile(f, a, b) == Resolve(f, a) = Resolve(f, b)

\* f with one more entry
Put(f, node, e) == [n \in DOMAIN f \cup {node} |-> IF n = node THEN e ELSE f[n]]

\* os.mkdir(p): err is "" | "EEXIST" | "ENOENT"
Mkdir(f, p) ==
    LET q == IF RStripSep(p) = <<>> THEN p ELSE RStripSep(p)
        node == Walk(f, SplitSep(q), <<>>)
    IN IF node = NoNode THEN [err |-> "ENOENT", fs |-> f]
       ELSE IF Kind(f, node) # "absent" THEN [err |-> "EEXIST", fs |-> f]
       ELSE [err |-> "", fs |-> Put(f, node, DirEntry)]

\* the end of os.makedirs: mkdir(name), its error let go when name is a directory
MakedirsLeaf(f, name, mk) ==
    IF mk.err # "" /\ Isdir(f, name) THEN [err |-> "", fs |-> f] ELSE mk

\* os.makedirs after makedirs(head) has returned sub
MakedirsAfterHead(name, tail, sub) ==
    IF sub.err = "ENOENT" THEN sub
    ELSE IF tail = Dot THEN [err |-> "", fs |-> sub.fs]
    ELSE MakedirsLeaf(sub.fs, name, Mkdir(sub.fs, name))

\* os.makedirs(name, exist_ok=True): err is "" | "EEXIST" | "ENOENT"
RECURSIVE Makedirs(_, _)
RECURSIVE MakedirsSplit(_, _, _)
MakedirsSplit(f, name, split) ==
    IF split[1] # <<>> /\ split[2] # <<>> /\ ~Exists(f, split[1])
    THEN MakedirsAfterHead(name, split[2], Makedirs(f, split[1]))
    ELSE MakedirsLeaf(f, name, Mkdir(f, name))
Makedirs(f, name) ==
    MakedirsSplit(f, name,
        IF PathSplit(name)[2] = <<>> THEN PathSplit(PathSplit(name)[1]) ELSE PathSplit(name))

\* ------------------------------------------------------------ configuration
\* mlcube.tasks[task]: the position of the task named name, 0 when there is none
TaskIndex(mlcube, name) ==
    LET at == {i \in 1..Len(mlcube.tasks) : mlcube.tasks[i].name = name}
    IN IF at = {} THEN 0 ELSE CHOOSE i \in at : TRUE

InputNames == <<"a", "b", "c", "d">>
OutputNames == <<"w", "x", "y", "z">>

\* the parameter lists of n parameters with the given names, types and defaults
ParamLists(names, n, types, defaults) ==
    {[i \in 1..n |-> [name |-> names[i], type |-> td[i][1], default |-> td[i][2]]] :
        td \in [1..n -> types \X defaults]}

\* ------------------------------------------------- generate_mounts_and_args
\* '/mlcube_io{}/{}'.format(n, path)
MountPoint(n, path) == <<Sep, "mlcube_io", NumStr(n), Sep>> \o path

\* '--{}={}'.format(name, value)
Argument(name, value) == <<"--", name, "=">> \o value

\* mounts.get(host, default): mounts is the dict as its list of items
MountsGet(mounts, host, default) ==
    LET at == {i \in 1..Len(mounts) : mounts[i].host = host}
    IN IF at = {} THEN default ELSE mounts[CHOOSE i \in at : TRUE].container

\* mounts[host] = value
MountsSet(mounts, host, value) ==
    IF \E i \in 1..Len(mounts) : mounts[i].host = host
    THEN [i \in 1..Len(mounts) |->
            IF mounts[i].host = host THEN [mounts[i] EXCEPT !.container = value]
            ELSE mounts[i]]
    ELSE Append(mounts, [host |-> host, container |-> value])

\* lines 81-93 with the raise left out: an unknown type stays unknown
ResolveUnknownNoRaise(io, f, hostPath) ==
    IF io = OUTPUT THEN UNKNOWN
    ELSE IF Isdir(f, hostPath) THEN DIRECTORY
    ELSE IF Isfile(f, hostPath) THEN FILE
    ELSE UNKNOWN

\* lines 81-93 with a missing input path taken for a directory still to be made
ResolveUnknownDefaultsToDirectory(io, f, hostPath) ==
    IF io = OUTPUT THEN "ConfigurationError"
    ELSE IF Isfile(f, hostPath) THEN FILE
    ELSE DIRECTORY

\* the type an UNKNOWN parameter gets, or the error raised
ResolveUnknown(io, f, hostPath) ==
    IF io = OUTPUT THEN "ConfigurationError"
    ELSE IF Isdir(f, hostPath) THEN DIRECTORY
    ELSE IF Isfile(f, hostPath) THEN FILE
    ELSE "ConfigurationError"

\* the mount point of a DIRECTORY parameter, were mounts[host] set and not defaulted
DirectoryMountOverwrite(mounts, hostPath) ==
    MountPoint(Len(mounts), Basename(hostPath))

\* the mount point of a DIRECTORY parameter's host path
DirectoryMount(mounts, hostPath) ==
    MountsGet(mounts, hostPath, MountPoint(Len(mounts), Basename(hostPath)))

\* the mount point of a FILE parameter's containing directory
FileMount(mounts, hostDir) ==
    MountsGet(mounts, hostDir, MountPoint(Len(mounts), hostDir))

Raise(st, error, name) == [st EXCEPT !.status = error, !.param = name]

\* lines 96-101: the DIRECTORY branch, md being what os.makedirs did
MountDirectory(st, p, hostPath, md, mounts) ==
    IF md.err # "" THEN Raise([st EXCEPT !.fs = md.fs], "OSError", p.name)
    ELSE [st EXCEPT !.fs = md.fs, !.mounts = mounts,
                    !.args = Append(@, Argument(p.name, MountsGet(mounts, hostPath, <<>>)))]

\* lines 103-109: the FILE branch, split being os.path.split(_host_path)
MountFile(st, p, split, md, mounts) ==
    IF md.err # "" THEN Raise([st EXCEPT !.fs = md.fs], "OSError", p.name)
    ELSE [st EXCEPT !.fs = md.fs, !.mounts = mounts,
                    !.args = Append(@, Argument(p.name,
                                 MountsGet(mounts, split[1], <<>>) \o <<Sep>> \o split[2]))]

\* lines 95-109: the two branches on the type, which may still be UNKNOWN
GenerateTyped(st, p, hostPath, type, split) ==
    IF type = DIRECTORY
    THEN MountDirectory(st, p, hostPath, Makedirs(st.fs, hostPath),
             MountsSet(st.mounts, hostPath, DirectoryMount(st.mounts, hostPath)))
    ELSE IF type = FILE
    THEN MountFile(st, p, split, Makedirs(st.fs, split[1]),
             MountsSet(st.mounts, split[1], FileMount(st.mounts, split[1])))
    ELSE st

\* lines 81-109, type being the resolved type or the error raised
GenerateResolved(st, io, i, p, hostPath, type) ==
    IF type = "ConfigurationError" THEN Raise(st, "ConfigurationError", p.name)
    ELSE GenerateTyped(IF io = INPUT /\ type \in {DIRECTORY, FILE}
                       THEN [st EXCEPT !.inputs[i].type = type] ELSE st,
                       p, hostPath, type, PathSplit(hostPath))

\* lines 76-109 for the parameter definition p with its host path
GenerateChecked(st, io, i, p, hostPath) ==
    IF ~ParameterTypeIsValid(p.type) THEN Raise(st, "ConfigurationError", p.name)
    ELSE GenerateResolved(st, io, i, p, hostPath,
             IF p.type = UNKNOWN THEN ResolveUnknown(io, st.fs, hostPath) ELSE p.type)

\* one pass of the loop of _generate over the i-th parameter of the io group
GenerateAt(st, workspace, io, i, p) ==
    GenerateChecked(st, io, i, p, Join(workspace, p.default))
GenerateParam(st, workspace, io, i) ==
    GenerateAt(st, workspace, io, i, IF io = INPUT THEN st.inputs[i] ELSE st.outputs[i])

\* _generate(_params, _io) from the i-th parameter on; an exception ends it
RECURSIVE GenerateFrom(_, _, _, _)
GenerateFrom(st, workspace, io, i) ==
    IF st.status # "ok" \/ i > (IF io = INPUT THEN Len(st.inputs) ELSE Len(st.outputs)) THEN st
    ELSE GenerateFrom(GenerateParam(st, workspace, io, i), workspace, io, i + 1)

\* _generate with an invalid _io raises before the loop
GenerateGroup(st, workspace, io) ==
    IF st.status # "ok" THEN st
    ELSE IF ~IOTypeIsValid(io) THEN Raise(st, "ConfigurationError", <<>>)
    ELSE GenerateFrom(st, workspace, io, 1)

\* the two calls of _generate, outputs first
GenerateOutputsFirst(st, workspace) ==
    GenerateGroup(GenerateGroup(st, workspace, OUTPUT), workspace, INPUT)

\* the two calls of _generate
GenerateBoth(st, workspace) ==
    GenerateGroup(GenerateGroup(st, workspace, INPUT), workspace, OUTPUT)

\* generate_mounts_and_args(mlcube, task) run on file system f
Generate(mlcube, taskName, f) ==
    LET t == mlcube.tasks[TaskIndex(mlcube, taskName)]
        st0 == [status |-> "ok", param |-> <<>>, fs |-> f, mounts |-> <<>>,
                args |-> <<taskName>>, inputs |-> t.inputs, outputs |-> t.outputs]
    IN GenerateBoth(st0, mlcube.runtime.workspace)

\* what the caller gets: the tuple (mounts, args), or the exception
Returned(st) ==
    IF st.status = "ok"
    THEN [status |-> "ok", param |-> <<>>, mounts |-> st.mounts, args |-> st.args]
    ELSE [status |-> st.status, param |-> st.param, mounts |-> <<>>, args |-> <<>>]

NoReturn == [status |-> "none", param |-> <<>>, mounts |-> <<>>, args |-> <<>>]

\* ---- the generator's specification
GenWorkspace == <<Sep, "ws">>
GenInputDefaults == {<<"d">>, <<"d", Sep>>, <<"d", Sep, "f">>}
GenOutputDefaults == {<<"d">>, <<"d", Sep, "f">>}
GenTypes == {UNKNOWN, FILE, DIRECTORY}

\* the host file systems: the workspace, in it d absent, a file or a directory,
\* and in a directory d, f absent, a file or a directory
GenFileSystems ==
    LET ws == << <<"ws">> >>
        d == << <<"ws">>, <<"d">> >>
        df == << <<"ws">>, <<"d">>, <<"f">> >>
        base == (ws :> DirEntry)
    IN {base, base @@ (d :> FileEntry("h")), base @@ (d :> DirEntry),
        base @@ (d :> DirEntry) @@ (df :> FileEntry("h")),
        base @@ (d :> DirEntry) @@ (df :> DirEntry)}

InitGen ==
    /\ \E ni \in 0..MaxInputs, no \in 0..MaxOutputs :
         \E ins \in ParamLists(InputNames, ni, GenTypes, GenInputDefaults),
            outs \in ParamLists(OutputNames, no, GenTypes, GenOutputDefaults) :
              cube = [runtime |-> [workspace |-> GenWorkspace, root |-> <<Sep, "r">>],
                      tasks |-> << [name |-> <<"train">>, inputs |-> ins, outputs |-> outs] >>]
    /\ task = <<"train">>
    /\ fs \in GenFileSystems
    /\ pre = <<>>
    /\ ret = NoReturn
    /\ prev = NoReturn
    /\ calls = 0
    /\ pc = "idle"
    /\ idx = 0
    /\ copied = <<>>

\* a call of Shell.generate_mounts_and_args(cube, task)
GenerateMountsAndArgs ==
    /\ calls < MaxCalls
    /\ \E st \in {Generate(cube, task, fs)} :
          /\ fs' = st.fs
          /\ cube' = [cube EXCEPT !.tasks[TaskIndex(cube, task)].inputs = st.inputs]
          /\ ret' = Returned(st)
    /\ pre' = Append(pre, [fs |-> fs, cube |-> cube])
    /\ prev' = ret
    /\ calls' = calls + 1
    /\ UNCHANGED <<task, pc, idx, copied>>

NextGen == GenerateMountsAndArgs

SpecGen == InitGen /\ [][NextGen]_vars

\* ------------------------------------------------------------ sync_workspace
\* _storage_not_supported(_uri): whether it raises, and what it returns if not
StorageRaises(uri) == StartsWith(Strip(uri), StorageScheme)
StorageChecked(uri) == Strip(uri)

\* _is_inside_workspace(_workspace, _artifact)
IsInsideWorkspace(workspace, artifact) ==
    SelectComps(SplitSep(workspace)) = CommonPath(workspace, artifact)

\* _is_ok(_parameter, _kind, _workspace, _artifact, _must_exist)
IsOk(f, workspace, artifact, mustExist) ==
    IF ~IsInsideWorkspace(workspace, artifact) THEN FALSE
    ELSE IF mustExist /\ ~Exists(f, artifact) THEN FALSE
    ELSE IF ~mustExist /\ Exists(f, artifact) THEN FALSE
    ELSE TRUE

\* the output parameter definitions of all tasks, in the order of the two loops
RECURSIVE AllOutputs(_)
AllOutputs(tasks) ==
    IF tasks = <<>> THEN <<>> ELSE Head(tasks).outputs \o AllOutputs(Tail(tasks))

\* _is_task_output without the comparison: no artifact is an output
ScanOutputsNoMatch(outs, targetWorkspace, targetArtifact) ==
    IF \E i \in 1..Len(outs) : StorageRaises(outs[i].default) THEN "raise" ELSE "false"

\* the loops of _is_task_output: "true", "false", or "raise" at a storage uri
RECURSIVE ScanOutputs(_, _, _)
ScanOutputs(outs, targetWorkspace, targetArtifact) ==
    IF outs = <<>> THEN "false"
    ELSE IF StorageRaises(Head(outs).default) THEN "raise"
    ELSE IF targetArtifact = Join(targetWorkspace, StorageChecked(Head(outs).default))
    THEN "true"
    ELSE ScanOutputs(Tail(outs), targetWorkspace, targetArtifact)

\* _is_task_output(_target_artifact, _input_parameter)
IsTaskOutput(mlcube, targetWorkspace, targetArtifact) ==
    ScanOutputs(AllOutputs(mlcube.tasks), targetWorkspace, targetArtifact)

\* shutil.copy(src, dst) and distutils' copy_file(src, dst) of a regular file src
CopyFile(f, src, dst) ==
    LET to == IF Isdir(f, dst) THEN Join(dst, Basename(src)) ELSE dst
        from == Resolve(f, src)
        node == Resolve(f, to)
    IN IF node = NoNode \/ Kind(f, node) = "dir" \/ node = from
       THEN [err |-> "OSError", fs |-> f]
       ELSE [err |-> "", fs |-> Put(f, node, f[from])]

\* distutils.dir_util.mkpath(name) from the k-th component of the normalised name on
RECURSIVE MkpathFrom(_, _, _)
MkpathNext(cs, k, mk) ==
    IF mk.err # "" THEN [err |-> "OSError", fs |-> mk.fs] ELSE MkpathFrom(mk.fs, cs, k + 1)
MkpathHead(f, cs, k, head) ==
    MkpathNext(cs, k, IF Isdir(f, head) THEN [err |-> "", fs |-> f] ELSE Mkdir(f, head))
MkpathFrom(f, cs, k) ==
    IF k > Len(cs) THEN [err |-> "", fs |-> f]
    ELSE MkpathHead(f, cs, k, CompsStr(SubSeq(cs, 1, k)))

Mkpath(f, name) == MkpathFrom(f, NormComps(SplitSep(name), <<>>), 1)

\* os.listdir(p) of a directory p
Listdir(f, p) ==
    LET dir == Resolve(f, p)
    IN {node[Len(node)] : node \in {m \in DOMAIN f : m # <<>> /\ Parent(m) = dir}}

\* distutils.dir_util.copy_tree(src, dst); names is what is left of os.listdir(src)
RECURSIVE CopyTree(_, _, _)
RECURSIVE CopyNames(_, _, _, _)
CopyRest(src, dst, names, one) ==
    IF one.err # "" THEN one ELSE CopyNames(one.fs, src, dst, names)
CopyName(f, src, dst, names, n) ==
    CopyRest(src, dst, names \ {n},
             IF Isdir(f, Join(src, n)) THEN CopyTree(f, Join(src, n), Join(dst, n))
             ELSE CopyFile(f, Join(src, n), Join(dst, n)))
CopyNames(f, src, dst, names) ==
    IF names = {} THEN [err |-> "", fs |-> f]
    ELSE CopyName(f, src, dst, names, CHOOSE x \in names : TRUE)
CopyInto(f, src, dst, mk) ==
    IF mk.err # "" THEN mk ELSE CopyNames(mk.fs, src, dst, Listdir(f, src))
CopyTree(f, src, dst) ==
    IF ~Isdir(f, src) THEN [err |-> "OSError", fs |-> f]
    ELSE CopyInto(f, src, dst, Mkpath(f, dst))

\* target_workspace and source_workspace
TargetWorkspace(mlcube) == Abspath(StorageChecked(mlcube.runtime.workspace))
SourceWorkspace(mlcube) == Abspath(Join(mlcube.runtime.root, <<"workspace">>))

\* what a pass of the loop leaves: the exception or "ok", and whether it copied
Pass(status, f, didCopy) == [status |-> status, fs |-> f, copied |-> didCopy]
AfterCopy(r) == IF r.err # "" THEN Pass("OSError", r.fs, FALSE) ELSE Pass("ok", r.fs, TRUE)

\* lines 221-222, md being what os.makedirs did
CopyAfterMakedirs(sourceUri, targetUri, md) ==
    IF md.err # "" THEN Pass("OSError", md.fs, FALSE)
    ELSE AfterCopy(CopyFile(md.fs, sourceUri, targetUri))

\* lines 220-226: the copy of a file, of a directory, or the error
CopyArtifact(f, sourceUri, targetUri) ==
    IF Isfile(f, sourceUri)
    THEN CopyAfterMakedirs(sourceUri, targetUri, Makedirs(f, Dirname(targetUri)))
    ELSE IF Isdir(f, sourceUri) THEN AfterCopy(CopyTree(f, sourceUri, targetUri))
    ELSE Pass("RuntimeError", f, FALSE)

\* lines 217-226, isOutput being what _is_task_output did
SyncUnlessOutput(f, sourceUri, targetUri, isOutput) ==
    IF isOutput = "raise" THEN Pass("NotImplementedError", f, FALSE)
    ELSE IF isOutput = "true" THEN Pass("ok", f, FALSE)
    ELSE CopyArtifact(f, sourceUri, targetUri)

\* lines 209-226 for an input whose default is no storage uri
SyncUris(f, mlcube, sourceWorkspace, targetWorkspace, sourceUri, targetUri) ==
    IF ~IsOk(f, sourceWorkspace, sourceUri, TRUE) THEN Pass("ok", f, FALSE)
    ELSE IF ~IsOk(f, targetWorkspace, targetUri, FALSE) THEN Pass("ok", f, FALSE)
    ELSE SyncUnlessOutput(f, sourceUri, targetUri,
                          IsTaskOutput(mlcube, targetWorkspace, targetUri))

SyncIn(f, mlcube, p, sourceWorkspace, targetWorkspace) ==
    IF StorageRaises(p.default) THEN Pass("NotImplementedError", f, FALSE)
    ELSE SyncUris(f, mlcube, sourceWorkspace, targetWorkspace,
                  Join(sourceWorkspace, StorageChecked(p.default)),
                  Join(targetWorkspace, StorageChecked(p.default)))

\* one pass of the loop over the inputs, for the parameter definition p
SyncInput(f, mlcube, p) == SyncIn(f, mlcube, p, SourceWorkspace(mlcube), TargetWorkspace(mlcube))

Status(s) == [NoReturn EXCEPT !.status = s]

\* lines 184-193: after os.makedirs(target_workspace); "loop" when the loop is entered
SyncChecks(f, mlcube, taskName, sourceWorkspace, targetWorkspace) ==
    IF ~Exists(f, sourceWorkspace) THEN [status |-> "ok", fs |-> f]
    ELSE IF Samefile(f, targetWorkspace, sourceWorkspace) THEN [status |-> "ok", fs |-> f]
    ELSE IF TaskIndex(mlcube, taskName) = 0 THEN [status |-> "ValueError", fs |-> f]
    ELSE [status |-> "loop", fs |-> f]

SyncAfterMakedirs(mlcube, taskName, md) ==
    IF md.err # "" THEN [status |-> "OSError", fs |-> md.fs]
    ELSE SyncChecks(md.fs, mlcube, taskName, SourceWorkspace(mlcube), TargetWorkspace(mlcube))

\* lines 180-193: what happens before the loop
SyncPrologue(f, mlcube, taskName) ==
    IF StorageRaises(mlcube.runtime.workspace)
    THEN [status |-> "NotImplementedError", fs |-> f]
    ELSE SyncAfterMakedirs(mlcube, taskName, Makedirs(f, TargetWorkspace(mlcube)))

\* target_mlcube.tasks[task].parameters.inputs
Inputs(mlcube, taskName) == mlcube.tasks[TaskIndex(mlcube, taskName)].inputs

\* ---- the synchronizer's specification
SyncRoot == <<Sep, "r">>
SyncTarget == <<Sep, "t">>
SyncInputDefaults ==
    {<<"d">>, <<"d", Sep, "f">>, <<"..", Sep, "x">>, <<"n", Sep, "..", Sep, "d">>,
     <<Space, StorageScheme, "d">>, <<Sep, "r", Sep, "x">>}
SyncOutputDefaults == {<<"d">>, <<"d", Sep, "f">>, <<Space, StorageScheme, "d">>}

\* a workspace directory at node w: d absent, a file, a directory or a directory
\* holding the file f; with a directory n beside it when withN
WorkspaceTrees(w, data, withN) ==
    LET d == Append(w, <<"d">>)
        df == Append(d, <<"f">>)
        base == IF withN THEN (w :> DirEntry) @@ (Append(w, <<"n">>) :> DirEntry)
                ELSE (w :> DirEntry)
    IN {base, base @@ (d :> FileEntry(data)), base @@ (d :> DirEntry),
        base @@ (d :> DirEntry) @@ (df :> FileEntry(data))}

\* the cube root /r with the file /r/x, its workspace /r/workspace (perhaps missing),
\* and the target workspace /t (perhaps missing)
SyncFileSystems ==
    LET r == << <<"r">> >>
        root == (r :> DirEntry) @@ (Append(r, <<"x">>) :> FileEntry("S"))
        sources == {<<>>} \cup WorkspaceTrees(Append(r, <<"workspace">>), "S", TRUE)
        targets == {<<>>} \cup WorkspaceTrees(<< <<"t">> >>, "T", FALSE)
                          \cup WorkspaceTrees(<< <<"t">> >>, "T", TRUE)
    IN {root @@ s @@ t : s \in sources, t \in targets}

SyncCube(workspace, ins, outs, others) ==
    [runtime |-> [workspace |-> workspace, root |-> SyncRoot],
     tasks |-> << [name |-> <<"train">>, inputs |-> ins, outputs |-> outs],
                  [name |-> <<"eval">>, inputs |-> <<>>, outputs |-> others] >>]

InitSync ==
    /\ \E ni \in 0..MaxInputs, no \in 0..MaxOutputs :
         \E ins \in ParamLists(InputNames, ni, {UNKNOWN}, SyncInputDefaults),
            outs \in ParamLists(OutputNames, no, {DIRECTORY}, SyncOutputDefaults),
            others \in {<<>>, <<[name |-> "out", type |-> DIRECTORY, default |-> <<"d">>]>>} :
              \/ /\ cube = SyncCube(SyncTarget, ins, outs, others)
                 /\ task = <<"train">>
              \/ /\ ni <= 1 /\ no = 0 /\ others = <<>>
                 /\ \/ /\ cube = SyncCube(SyncTarget, ins, outs, others)
                       /\ task = <<"test">>
                    \/ /\ cube \in {SyncCube(w, ins, outs, others) :
                                     w \in {<<Sep, "r", Sep, "workspace", Sep>>,
                                            <<StorageScheme, Sep, "t">>}}
                       /\ task = <<"train">>
    /\ fs \in SyncFileSystems
    /\ pre = <<>>
    /\ ret = NoReturn
    /\ prev = NoReturn
    /\ calls = 0
    /\ pc = "idle"
    /\ idx = 0
    /\ copied = <<>>

\* sync_workspace(cube, task) up to the loop over the inputs
SyncBegin ==
    /\ pc = "idle"
    /\ \E r \in {SyncPrologue(fs, cube, task)} :
       \E enter \in {r.status = "loop" /\ Len(Inputs(cube, task)) > 0} :
          /\ fs' = r.fs
          /\ pc' = IF enter THEN "loop" ELSE "done"
          /\ idx' = IF enter THEN 1 ELSE 0
          /\ ret' = IF enter THEN ret
                    ELSE Status(IF r.status = "loop" THEN "ok" ELSE r.status)
    /\ pre' = Append(pre, [fs |-> fs, cube |-> cube])
    /\ calls' = calls + 1
    /\ UNCHANGED <<cube, task, prev, copied>>

\* one pass of the loop over the inputs; the return after the last one
SyncLoop ==
    /\ pc = "loop"
    /\ \E p \in {Inputs(cube, task)[idx]} :
       \E r \in {SyncInput(fs, cube, p)} :
       \E last \in {r.status # "ok" \/ idx = Len(Inputs(cube, task))} :
          /\ fs' = r.fs
          /\ copied' = IF r.copied THEN Append(copied, p.name) ELSE copied
          /\ pc' = IF last THEN "done" ELSE "loop"
          /\ idx' = IF last THEN idx ELSE idx + 1
          /\ ret' = IF last THEN Status(r.status) ELSE ret
    /\ UNCHANGED <<cube, task, pre, prev, calls>>

NextSync == SyncBegin \/ SyncLoop

SpecSync == InitSync /\ [][NextSync]_vars

\* =================================================================== claims
\* the snapshot taken when the last call began, and when the first one did
Pre == pre[Len(pre)]
First == pre[1]
TheTask == cube.tasks[TaskIndex(cube, task)]
Called == Len(pre) > 0

\* the parameters of the task as the last call left them, inputs then outputs
Params == TheTask.inputs \o TheTask.outputs
\* the same as they were declared when the last call began
Declared ==
    LET t == Pre.cube.tasks[TaskIndex(cube, task)] IN t.inputs \o t.outputs
NumInputs == Len(TheTask.inputs)
IoOf(k) == IF k <= NumInputs THEN INPUT ELSE OUTPUT

HostPath(p) == Join(cube.runtime.workspace, p.default)
\* the host path a parameter has mounted: its own, or its containing directory
MountedPath(p) == IF p.type = DIRECTORY THEN HostPath(p) ELSE PathSplit(HostPath(p))[1]
\* the directory a host path string refers to
DirectoryOf(path) == NormComps(SplitSep(path), <<>>)
\* the value of an argument '--name=value'
ArgValue(arg) == SubSeq(arg, 4, Len(arg))
\* the position of a host path in the mount table, 0 when absent
MountIndex(mounts, host) ==
    LET at == {i \in 1..Len(mounts) : mounts[i].host = host}
    IN IF at = {} THEN 0 ELSE CHOOSE i \in at : TRUE

\* C1: whenever generate_mounts_and_args returns, the mount table has exactly one
\* entry for each host directory (parameters whose host paths refer to the same
\* directory share it), and the arguments of DIRECTORY parameters that refer to
\* the same host directory carry the same container path.
C1_OneMountPerHostDirectory ==
    ret.status = "ok" =>
        /\ \A i, j \in 1..Len(ret.mounts) :
             DirectoryOf(ret.mounts[i].host) = DirectoryOf(ret.mounts[j].host) => i = j
        /\ \A k, l \in 1..Len(Params) :
             (/\ Params[k].type = DIRECTORY /\ Params[l].type = DIRECTORY
              /\ DirectoryOf(HostPath(Params[k])) = DirectoryOf(HostPath(Params[l])))
             => ArgValue(ret.args[k + 1]) = ArgValue(ret.args[l + 1])

\* C2: whenever generate_mounts_and_args returns, the argument list is the task
\* name followed by one '--name=' entry per declared parameter, the inputs in
\* declaration order and then the outputs in declaration order.
C2_ArgumentOrder ==
    ret.status = "ok" =>
        /\ Len(ret.args) = 1 + Len(TheTask.inputs) + Len(TheTask.outputs)
        /\ ret.args[1] = task
        /\ \A k \in 1..Len(Params) :
             IsPrefix(<<"--", Params[k].name, "=">>, ret.args[k + 1])

C2_Witness ==
    /\ ret.status = "ok"
    /\ Len(TheTask.inputs) = 2
    /\ Len(TheTask.outputs) >= 1

C7_Idempotent == Len(pre) >= 2 => ret = prev

C7_Witness ==
    /\ Len(pre) = 2
    /\ ret.status = "ok"
    /\ prev.status = "ok"
    /\ Len(ret.mounts) = 2
    /\ First.fs # Pre.fs
    /\ First.cube # Pre.cube

\* the first parameter that mounted the same host path as the k-th
FirstRef(k) ==
    CHOOSE f \in 1..k :
        /\ MountedPath(Params[f]) = MountedPath(Params[k])
        /\ \A l \in 1..(f - 1) : MountedPath(Params[l]) # MountedPath(Params[k])
\* the number of distinct host paths mounted before the k-th parameter's was
SlotOf(k) == Cardinality({MountedPath(Params[l]) : l \in 1..(FirstRef(k) - 1)})
FileNameOf(p) == PathSplit(HostPath(p))[2]

\* C8 as stated: whatever came before it, a DIRECTORY parameter's argument is
\* --name=/mlcube_io{N}/{basename(host path)} and a FILE parameter's is
\* --name=/mlcube_io{N}/{containing host directory}/{file name}, N being the
\* number of distinct host paths mounted before its own.
C8_ShapeByOwnType ==
    ret.status = "ok" =>
        \A k \in 1..Len(Params) :
           LET p == Params[k]
               n == SlotOf(k)
           IN /\ MountIndex(ret.mounts, MountedPath(p)) = n + 1
              /\ p.type = DIRECTORY =>
                   ret.args[k + 1] = Argument(p.name, MountPoint(n, Basename(HostPath(p))))
              /\ p.type = FILE =>
                   ret.args[k + 1] = Argument(p.name,
                       MountPoint(n, MountedPath(p)) \o <<Sep>> \o FileNameOf(p))

\* C8 (amended): the argument of a parameter carries the container path its host
\* directory got when it was first mounted: /mlcube_io{N}/{basename} when the
\* first parameter to mount it was a DIRECTORY, /mlcube_io{N}/{host directory}
\* when it was a FILE, N being the number of distinct host paths mounted before;
\* a FILE parameter's argument appends /{file name} to it.
C8_ShapeByFirstMount ==
    ret.status = "ok" =>
        \A k \in 1..Len(Params) :
           LET p == Params[k]
               n == SlotOf(k)
               host == MountedPath(p)
               container == IF Params[FirstRef(k)].type = DIRECTORY
                            THEN MountPoint(n, Basename(host))
                            ELSE MountPoint(n, host)
           IN /\ MountIndex(ret.mounts, host) = n + 1
              /\ ret.mounts[n + 1].container = container
              /\ p.type = DIRECTORY => ret.args[k + 1] = Argument(p.name, container)
              /\ p.type = FILE =>
                   ret.args[k + 1] = Argument(p.name, container \o <<Sep>> \o FileNameOf(p))

C8_Witness ==
    /\ ret.status = "ok"
    /\ \E k \in 1..Len(Params) :
         /\ Params[k].type = FILE
         /\ Params[FirstRef(k)].type = DIRECTORY
    /\ Len(ret.mounts) = 2

\* ---- sync_workspace
\* the nodes of the two workspaces
TargetNode == NormComps(SplitSep(TargetWorkspace(cube)), <<>>)
SourceNode == NormComps(SplitSep(SourceWorkspace(cube)), <<>>)
\* the nodes the call has created, and those it has changed or removed
Created == DOMAIN fs \ DOMAIN Pre.fs
Changed == {n \in DOMAIN Pre.fs : n \notin DOMAIN fs \/ fs[n] # Pre.fs[n]}
\* the input parameter of the executed task with the given name
InputNamed(name) ==
    LET ins == Inputs(cube, task)
    IN ins[CHOOSE i \in 1..Len(ins) : ins[i].name = name]
TargetUri(p) == Join(TargetWorkspace(cube), Strip(p.default))
SourceUri(p) == Join(SourceWorkspace(cube), Strip(p.default))
\* the declared output paths of all tasks, in the target workspace
OutputUris ==
    LET outs == AllOutputs(cube.tasks)
    IN {Join(TargetWorkspace(cube), Strip(outs[i].default)) :
          i \in {j \in 1..Len(outs) : ~StartsWith(Strip(outs[j].default), StorageScheme)}}

\* C3: sync_workspace never overwrites or changes an artifact that was in the
\* file system when it was called: every file and directory there before the
\* call is there after it, with the contents it had.
C3_NeverOverwrites == Called => Changed = {}

\* C4: an input parameter whose target path is, as a string, the declared output
\* path of some parameter of some task is never copied by its pass of the loop,
\* even when the artifact exists in the source and is absent in the target.
C4_OutputNeverCopied ==
    \A i \in 1..Len(copied) : TargetUri(InputNamed(copied[i])) \notin OutputUris

C4_Witness ==
    /\ pc = "done"
    /\ ret.status = "ok"
    /\ copied = <<>>
    /\ TaskIndex(cube, task) # 0
    /\ \E i \in 1..Len(Inputs(cube, task)) :
         LET p == Inputs(cube, task)[i]
         IN /\ TargetUri(p) \in OutputUris
            /\ IsInsideWorkspace(SourceWorkspace(cube), SourceUri(p))
            /\ Exists(Pre.fs, SourceUri(p))
            /\ ~Exists(fs, TargetUri(p))

\* C5: when sync_workspace fails with NotImplementedError it has done no partial
\* work: nothing has been copied, so nothing but the target workspace directory
\* itself has been created and nothing has been changed.
C5_NoPartialWork ==
    ret.status = "NotImplementedError" =>
        /\ copied = <<>>
        /\ Changed = {}
        /\ \A n \in Created : IsPrefix(n, TargetNode)

\* C9: sync_workspace creates and changes nothing outside the target workspace
\* tree: every node it creates or changes lies in the target workspace (or is the
\* workspace directory or one of its parents, made when it was missing).
C9_Containment ==
    Called =>
        \A n \in Created \cup Changed : IsPrefix(TargetNode, n) \/ IsPrefix(n, TargetNode)

\* C10: after sync_workspace no artifact has been created at the declared output
\* path of any parameter of any task, be it the target of an input parameter or
\* a path inside a directory copied for one.
C10_NoOutputPreSeeded ==
    Called =>
        \A uri \in OutputUris : NormComps(SplitSep(uri), <<>>) \notin Created
====
